---- MODULE Spec2Model ----
(***************************************************************************)
(* AzureDevOpsServiceImpl (openhands/integrations/azure_devops/            *)
(* azure_devops_service.py) as a state machine.                            *)
(*                                                                         *)
(* One adapter instance serves one operation at a time.  Every handler is  *)
(* a coroutine that runs until its next `await self._make_request(...)`;   *)
(* the model has one action for the start of each handler and one for each *)
(* continuation after a request returned, plus the two outcomes of         *)
(* _make_request that do not return (the 401 retry and the raise).         *)
(*                                                                         *)
(* Text is a sequence of one-character strings, so that split('/'),        *)
(* lower() and `in` are computed and not assumed.                          *)
(***************************************************************************)
EXTENDS Integers, Sequences, FiniteSets, TLC

VARIABLES
    refresh,        \* self.refresh
    organization,   \* self.organization
    project,        \* self.project
    token,          \* self.token (the secret's value; <<>> is the empty secret)
    op,             \* the operation in progress or just finished; "idle" after construction
    pc,             \* "idle", the await point the handler is suspended at, or "done"
    args,           \* the arguments of op
    locals,         \* the local variables of the handler
    call,           \* the _make_request call in progress or last finished
    last,           \* the last _make_request call that finished, as its caller saw it
    reqlog,         \* the _make_request calls made by op so far, in order
    nhttp,          \* execute_request calls made by op so far
    nretry,         \* 401 retries made by op so far
    provider,       \* provider-side data the responses are drawn from
    result          \* what op returned or raised

vars == <<refresh, organization, project, token, op, pc, args, locals, call, last,
          reqlog, nhttp, nretry, provider, result>>

-----------------------------------------------------------------------------
(* Bounds of the model.                                                    *)

MaxIdLen == 2        \* longest repository identifier enumerated exhaustively
MaxRefs == 3         \* most head refs in an enumerated refs response
MaxRetries == 1      \* most 401 retries the transport provokes in one operation
FaultWindow == 6     \* only the first FaultWindow executions of an operation get a
                     \* 401-then-retry or a failure; later ones succeed
MaxPage == 1         \* pages range over -MaxPage .. MaxPage
MaxPerPage == 1      \* per_page ranges over 0 .. MaxPerPage
MaxPRs == 2          \* most pull requests in a pull-request response
MaxWorkItems == 1    \* most work items in a query response

-----------------------------------------------------------------------------
(* Python built-ins used by the code.                                      *)

\* None, which is no text: a text is a sequence of one-character strings.
None == << "None" >>

\* str(x)
PyStr(x) == IF x = None THEN << "N", "o", "n", "e" >> ELSE x

\* f'{a}/{b}/{c}'
Slashed(a, b, c) == a \o << "/" >> \o b \o << "/" >> \o c

Min(a, b) == IF a <= b THEN a ELSE b
Max(a, b) == IF a >= b THEN a ELSE b

\* All texts over an alphabet, up to a length.
RECURSIVE TextsUpTo(_, _)
TextsUpTo(alphabet, n) ==
    IF n = 0 THEN { <<>> }
    ELSE LET shorter == TextsUpTo(alphabet, n - 1)
         IN  shorter \cup { Append(s, c) : s \in shorter, c \in alphabet }

\* s.find(c) for a single character, 0 when absent (1-based otherwise).
RECURSIVE FindChar(_, _, _)
FindChar(s, c, i) ==
    IF i > Len(s) THEN 0
    ELSE IF s[i] = c THEN i
    ELSE FindChar(s, c, i + 1)

\* s.split('/')
RECURSIVE Split(_)
Split(s) ==
    LET k == FindChar(s, "/", 1)
    IN  IF k = 0 THEN << s >>
        ELSE << SubSeq(s, 1, k - 1) >> \o Split(SubSeq(s, k + 1, Len(s)))

\* str.lower() on the characters the model uses.
LowerChar(c) ==
    CASE c = "A" -> "a"
      [] c = "B" -> "b"
      [] OTHER   -> c

Lower(text) == [i \in 1 .. Len(text) |-> LowerChar(text[i])]

\* The code point order of the characters the model uses.
Ord(c) ==
    CASE c = "1" -> 49
      [] c = "2" -> 50
      [] c = "A" -> 65
      [] c = "B" -> 66
      [] c = "a" -> 97
      [] c = "b" -> 98
      [] c = "/" -> 47
      [] c = "o" -> 111
      [] c = "p" -> 112
      [] c = "q" -> 113
      [] c = "r" -> 114

\* a < b on str: lexicographic by code point.
RECURSIVE TextLess(_, _)
TextLess(a, b) ==
    IF b = << >> THEN FALSE
    ELSE IF a = << >> THEN TRUE
    ELSE IF a[1] # b[1] THEN Ord(a[1]) < Ord(b[1])
    ELSE TextLess(Tail(a), Tail(b))

\* `needle in hay` on str.
RECURSIVE TextIn(_, _)
TextIn(needle, hay) ==
    IF Len(needle) > Len(hay) THEN FALSE
    ELSE IF SubSeq(hay, 1, Len(needle)) = needle THEN TRUE
    ELSE TextIn(needle, Tail(hay))

\* [f(x) for x in seq]
MapSeq(f(_), seq) == [i \in 1 .. Len(seq) |-> f(seq[i])]

\* The keys of a sequence in ascending order.
RECURSIVE AscendingKeys(_)
AscendingKeys(keys) ==
    IF keys = { } THEN << >>
    ELSE LET least == CHOOSE k \in keys : \A j \in keys : ~TextLess(j, k)
         IN  << least >> \o AscendingKeys(keys \ { least })

Reverse(seq) == [i \in 1 .. Len(seq) |-> seq[Len(seq) + 1 - i]]

RECURSIVE Concat(_)
Concat(seqs) == IF seqs = << >> THEN << >> ELSE Head(seqs) \o Concat(Tail(seqs))

\* list.sort(key=..., reverse=...): a stable sort, so the elements of equal key
\* keep their order, also under reverse=True.
SortedBy(seq, key(_), reverse) ==
    LET keys    == { key(seq[i]) : i \in 1 .. Len(seq) }
        ordered == IF reverse THEN Reverse(AscendingKeys(keys)) ELSE AscendingKeys(keys)
    IN  Concat([k \in 1 .. Len(ordered) |->
                   SelectSeq(seq, LAMBDA e : key(e) = ordered[k])])

\* seq[start:end] with Python's treatment of negative and out-of-range indices
\* (0-based, end exclusive).
SliceIndex(i, n) ==
    IF i < 0 THEN Max(i + n, 0) ELSE Min(i, n)

PySlice(seq, start, end) ==
    LET n  == Len(seq)
        lo == SliceIndex(start, n)
        hi == SliceIndex(end, n)
    IN  IF lo >= hi THEN <<>> ELSE SubSeq(seq, lo + 1, hi)

-----------------------------------------------------------------------------
(* Construction.                                                           *)

\* __init__: organization and project from base_domain ("org" or "org/project";
\* a URL prefix "scheme://host/" is stripped first).
RECURSIVE FindSchemeSep(_, _)
FindSchemeSep(s, i) ==
    IF i + 2 > Len(s) THEN 0
    ELSE IF s[i] = ":" /\ s[i + 1] = "/" /\ s[i + 2] = "/" THEN i
    ELSE FindSchemeSep(s, i + 1)

DomainPath(base_domain) ==
    LET k == FindSchemeSep(base_domain, 1)
    IN  IF k = 0 THEN base_domain
        ELSE LET rest == SubSeq(base_domain, k + 3, Len(base_domain))
                 j    == FindChar(rest, "/", 1)
             IN  IF j = 0 THEN rest ELSE SubSeq(rest, j + 1, Len(rest))

InitOrganization(base_domain) ==
    IF base_domain = <<>> THEN <<>> ELSE Split(DomainPath(base_domain))[1]

InitProject(base_domain) ==
    IF base_domain = <<>> THEN <<>>
    ELSE LET parts == Split(DomainPath(base_domain))
         IN  IF Len(parts) >= 2 THEN parts[2] ELSE <<>>

BaseDomains ==
    { << "o" >>,
      << "o", "/", "p" >>,
      << "h", ":", "/", "/", "d", "/", "o", "/", "p" >> }

\* The adapter is constructed with a personal access token.
Tokens == { << "t" >> }

NoCall == [state |-> "none"]
NoResult == [kind |-> "none"]
NoPolicies == [policies |-> {}]

Init ==
    /\ refresh \in BOOLEAN
    /\ \E base_domain \in BaseDomains :
          /\ organization = InitOrganization(base_domain)
          /\ project = InitProject(base_domain)
    /\ token \in Tokens
    /\ op = "idle"
    /\ pc = "idle"
    /\ args = << >>
    /\ locals = << >>
    /\ call = NoCall
    /\ last = NoCall
    /\ reqlog = << >>
    /\ nhttp = 0
    /\ nretry = 0
    /\ provider = NoPolicies
    /\ result = NoResult

-----------------------------------------------------------------------------
(* Authentication and request execution.                                   *)

\* get_latest_token: this class returns the cached secret.
GetLatestToken(tok) == tok

\* The secret an implementation of get_latest_token that overrides this
\* class's (the class is an extension point) returns after a refresh.
FreshToken == << "u" >>

\* What `await self.get_latest_token()` may return in _make_request: the value
\* of this class's method, or of an overriding one.
LatestTokens(tok) == { GetLatestToken(tok), FreshToken }

\* _get_azure_devops_headers, its effect on self.token: an empty secret is
\* replaced by the latest one when that one is not empty.
CachedToken(tok) ==
    IF tok = <<>>
    THEN LET latest_token == GetLatestToken(tok)
         IN  IF latest_token # <<>> THEN latest_token ELSE tok
    ELSE tok

\* _get_azure_devops_headers, the headers it returns: Basic base64(":" + secret).
AzureDevOpsHeaders(tok) ==
    [Authorization |-> [scheme |-> "Basic", b64 |-> << ":" >> \o CachedToken(tok)]]

\* _has_token_expired
HasTokenExpired(status_code) == status_code = 401

\* Statuses the stub transport answers with; TransportFailure stands for
\* execute_request raising httpx.HTTPError instead of answering.
Statuses == { 200, 401, 500 }
TransportFailure == 0

\* response.raise_for_status() lets the response through.
IsSuccess(status_code) == status_code \in 200 .. 299

\* The body of a response that is not a success.
ErrorBody == [message |-> "error"]

\* `if self.refresh and self._has_token_expired(response.status_code)`, which
\* the code evaluates once, after the initial request.
NeedsRefresh_NoFlag(rf, c, status_code) ==
    Len(c.responses) = 0 /\ HasTokenExpired(status_code)

NeedsRefresh(rf, c, status_code) ==
    Len(c.responses) = 0 /\ rf /\ HasTokenExpired(status_code)

\* handle_http_status_error / handle_http_error of the base class: the typed
\* failure raised for a status or for a transport error.
HandleError(status_code) ==
    IF status_code = TransportFailure THEN "TransportError"
    ELSE IF status_code \in { 401, 403 } THEN "AuthFailure"
    ELSE "ProviderHTTPError"

TypedFailures == { "TransportError", "AuthFailure", "ProviderHTTPError" }

\* A new _make_request call: headers are built and the initial request executed.
NewCall(kind, url, method, params) ==
    [state     |-> "pending",
     kind      |-> kind,
     url       |-> url,
     method    |-> method,
     params    |-> params,
     execs     |-> << AzureDevOpsHeaders(token) >>,
     refreshed |-> << >>,
     responses |-> << >>]

\* `return response.json(), headers`: the body of the last response.
ReturnedJson(responses) == responses[Len(responses)].body

\* A finished call, as seen by its caller.
Finished(c, status_code, body, outcome) ==
    LET responses == Append(c.responses, [status |-> status_code, body |-> body])
    IN  [state      |-> outcome,
         kind       |-> c.kind,
         execs      |-> c.execs,
         responses  |-> responses,
         json       |-> IF outcome = "returned" THEN ReturnedJson(responses) ELSE None,
         error      |-> IF outcome = "raised" THEN HandleError(status_code) ELSE "none"]

\* What the handler does with an exception of _make_request: no handler of this
\* class catches it, so the operation raises it.
Propagate_Swallow(error) == [kind |-> "ok", value |-> << >>]

Propagate(error) == [kind |-> "error", error |-> error]

\* The start of every handler.  The fields of the adapter (refresh,
\* organization, project, token) are the same after an operation as before it,
\* so a behaviour follows one operation from the constructed adapter.
Begin(name, a) ==
    /\ pc = "idle"
    /\ op' = name
    /\ args' = a
    /\ nretry' = 0
    /\ last' = NoCall
    /\ UNCHANGED <<refresh, organization, project>>

\* The handler raises before its first request.
RaiseNow_Late(error) ==
    /\ pc' = "done"
    /\ result' = [kind |-> "error", error |-> error]
    /\ call' = NoCall
    /\ reqlog' = << [kind |-> "repository", key |-> 0] >>
    /\ nhttp' = 1
    /\ locals' = << >>
    /\ UNCHANGED <<token, provider>>

RaiseNow(error) ==
    /\ pc' = "done"
    /\ result' = [kind |-> "error", error |-> error]
    /\ call' = NoCall
    /\ reqlog' = << >>
    /\ nhttp' = 0
    /\ locals' = << >>
    /\ UNCHANGED <<token, provider>>

\* The handler returns before its first request.
ReturnNow(value) ==
    /\ pc' = "done"
    /\ result' = [kind |-> "ok", value |-> value]
    /\ call' = NoCall
    /\ reqlog' = << >>
    /\ nhttp' = 0
    /\ locals' = << >>
    /\ UNCHANGED <<token, provider>>

\* The handler's first `await self._make_request(...)`.
FirstRequest(kind, key, url, method, params) ==
    /\ call' = NewCall(kind, url, method, params)
    /\ token' = CachedToken(token)
    /\ reqlog' = << [kind |-> kind, key |-> key] >>
    /\ nhttp' = 1
    /\ result' = NoResult

\* A later `await self._make_request(...)`.
NextRequest(kind, key, url, method, params) ==
    /\ call' = NewCall(kind, url, method, params)
    /\ token' = CachedToken(token)
    /\ reqlog' = Append(reqlog, [kind |-> kind, key |-> key])
    /\ nhttp' = nhttp + 1
    /\ UNCHANGED result

\* _make_request returns to the handler suspended at await point `at`: the
\* last response is a success with the given body.
At(names, at) == op \in names /\ pc = at /\ call.state = "pending"

Recv(names, at, body) ==
    /\ At(names, at)
    /\ \E status_code \in Statuses :
          /\ IsSuccess(status_code)
          /\ ~NeedsRefresh(refresh, call, status_code)
          /\ last' = Finished(call, status_code, body, "returned")
    /\ UNCHANGED <<refresh, organization, project, op, args, nretry>>

\* The value _make_request returns then.
Json(body) == ReturnedJson(Append(call.responses, [status |-> 200, body |-> body]))

\* The handler returns after its last request.
Return(value) ==
    /\ pc' = "done"
    /\ result' = [kind |-> "ok", value |-> value]
    /\ call' = NoCall
    /\ UNCHANGED <<token, reqlog, nhttp>>

\* The handler raises an exception of its own after a request.
Raise(error) ==
    /\ pc' = "done"
    /\ result' = [kind |-> "error", error |-> error]
    /\ call' = NoCall
    /\ UNCHANGED <<token, reqlog, nhttp>>

\* _make_request, lines 132-142: the initial response is a 401 and the refresh
\* flag is set; the latest token is fetched and its value dropped (line 134,
\* kept in call.refreshed for reference), the headers rebuilt by
\* _get_azure_devops_headers from self.token, the request executed again.
RetryAfter401 ==
    /\ call.state = "pending"
    /\ nretry < MaxRetries
    /\ nhttp <= FaultWindow
    /\ \E status_code \in Statuses : \E latest_token \in LatestTokens(token) :
          /\ NeedsRefresh(refresh, call, status_code)
          /\ call' = [call EXCEPT
                         !.responses = Append(@, [status |-> status_code,
                                                  body   |-> ErrorBody]),
                         !.refreshed = Append(@, latest_token),
                         !.execs = Append(@, AzureDevOpsHeaders(token))]
    /\ token' = CachedToken(token)
    /\ nhttp' = nhttp + 1
    /\ nretry' = nretry + 1
    /\ UNCHANGED <<refresh, organization, project, op, pc, args, locals, last,
                   reqlog, provider, result>>

\* _make_request, lines 144-154: the last response is not a success, or the
\* transport failed; the classified error is raised and the handler, which
\* catches nothing, ends with it.
RequestFails ==
    /\ call.state = "pending"
    /\ nhttp <= FaultWindow
    /\ \E status_code \in Statuses \cup { TransportFailure } :
          /\ ~NeedsRefresh(refresh, call, status_code)
          /\ ~IsSuccess(status_code)
          /\ last' = Finished(call, status_code, ErrorBody, "raised")
          /\ result' = Propagate(HandleError(status_code))
    /\ pc' = "done"
    /\ call' = NoCall
    /\ UNCHANGED <<refresh, organization, project, token, op, args, locals,
                   reqlog, nhttp, nretry, provider>>

-----------------------------------------------------------------------------
(* URLs.  A URL is https://dev.azure.com/ followed by path segments, each  *)
(* a text, and the query parameters that carry data.                       *)

Lit(word) == << word >>

\* base_url: f'https://dev.azure.com/{self.organization}'
BaseUrl == << organization >>

Url(path, query) == [host |-> "dev.azure.com", path |-> path, query |-> query]

NoQuery == [none |-> TRUE]

\* f'https://dev.azure.com/{org}/{project}/_apis/git/repositories/{repo_name}'
\* followed by more segments.
RepositoryPath(org, proj, repo_name, more) ==
    << org, proj, Lit("_apis"), Lit("git"), Lit("repositories"), repo_name >> \o more

-----------------------------------------------------------------------------
(* Repository identifiers.                                                 *)

\* The identifier of the one repository the provider holds many refs for.
BigRepository == << "o", "/", "p", "/", "r" >>

\* An identifier of more than three segments.
NestedRepository == << "o", "/", "p", "/", "r", "/", "s" >>

\* Every text over '/' and 'a' up to MaxIdLen, and the two named identifiers.
Identifiers ==
    TextsUpTo({ "/", "a" }, MaxIdLen) \cup { BigRepository, NestedRepository }

\* `if len(parts) < 3: raise ValueError(...)`: the guard of _parse_repository,
\* which get_repository_details_from_repo_name, get_branches,
\* get_paginated_branches and create_pr repeat inline.
TooFewSegments(parts) == Len(parts) < 3

-----------------------------------------------------------------------------
(* get_repository_details_from_repo_name                                   *)

\* dict.get(key, default) on a JSON object; a key the object lacks is modelled
\* as holding None.
DictGet(value, default) == IF value = None THEN default ELSE value

\* The repository resource the provider answers with; its id may be absent.
RepositoryBodies(repo_name) ==
    { [id |-> id, name |-> repo_name] : id \in { None, << "g" >> } }

get_repository_details_from_repo_name ==
    \E repository \in Identifiers :
        /\ Begin("get_repository_details_from_repo_name", [repository |-> repository])
        /\ LET parts == Split(repository)
           IN  IF TooFewSegments(parts)
               THEN RaiseNow("ValueError")
               ELSE /\ locals' = [org |-> parts[1], project |-> parts[2],
                                  repo_name |-> parts[3]]
                    /\ FirstRequest("repository", 0,
                                    Url(RepositoryPath(parts[1], parts[2], parts[3], << >>),
                                        NoQuery),
                                    "GET", None)
                    /\ pc' = "repository"
                    /\ UNCHANGED provider

RepositoryDetailsReturned ==
    /\ At({"get_repository_details_from_repo_name"}, "repository")
    /\ \E body \in RepositoryBodies(locals.repo_name) :
        /\ Recv({"get_repository_details_from_repo_name"}, "repository", body)
        /\ LET repo == Json(body)
           IN  Return([id        |-> PyStr(repo.id),
                       full_name |-> Slashed(locals.org, locals.project, repo.name)])
        /\ UNCHANGED <<locals, provider>>

-----------------------------------------------------------------------------
(* get_branches                                                            *)

MAX_BRANCHES == 1000

\* The refs the provider lists for a repository: ref i has object id i and the
\* name refs/heads/i.
RefsBody(n) ==
    [value |-> [i \in 1 .. n |->
                   [name |-> [heads |-> TRUE, short |-> i], objectId |-> i]]]

\* How many head refs a repository may have.  The long lists are enumerated on
\* the adapter without the refresh flag: a retry repeats one request whatever
\* the length of the list.
RefCounts(repository) ==
    (0 .. MaxRefs) \cup
    (IF repository = BigRepository /\ ~refresh
     THEN { MAX_BRANCHES, MAX_BRANCHES + 1 }
     ELSE { })

\* Which refs have policy configurations: none, or the only one of a list of
\* one.
PolicyChoices(n) == IF n = 1 THEN { { }, { 1 } } ELSE { { } }

\* name.replace('refs/heads/', '')
StripHeads(name) == name.short

\* The commit the provider answers with for an object id.
CommitBody(object_id) == [committer |-> [date |-> object_id]]

\* The policy configurations the provider answers with for a ref name.
PolicyBody(short) ==
    [value |-> IF short \in provider.policies THEN << "policy" >> ELSE << >>]

CommitUrl(l, object_id) ==
    Url(RepositoryPath(l.org, l.project, l.repo_name, << Lit("commits"), << object_id >> >>),
        NoQuery)

PolicyUrl(l, repository_id, name) ==
    Url(<< l.org, l.project, Lit("_apis"), Lit("git"), Lit("policy"),
           Lit("configurations") >>,
        [repositoryId |-> repository_id, refName |-> [heads |-> TRUE, short |-> name]])

RefsUrl(org, proj, repo_name) ==
    Url(RepositoryPath(org, proj, repo_name, << Lit("refs") >>), [filter |-> "heads/"])

Branch(name, object_id, is_protected, commit_data) ==
    [name           |-> name,
     commit_sha     |-> object_id,
     protected      |-> is_protected,
     last_push_date |-> commit_data.committer.date]

\* `if len(all_branches) >= MAX_BRANCHES: break`
BranchCapReached(all_branches) == Len(all_branches) >= MAX_BRANCHES

get_branches ==
    \E repository \in Identifiers :
        /\ Begin("get_branches", [repository |-> repository])
        /\ LET parts == Split(repository)
           IN  IF TooFewSegments(parts)
               THEN RaiseNow("ValueError")
               ELSE /\ locals' = [org |-> parts[1], project |-> parts[2],
                                  repo_name |-> parts[3]]
                    /\ FirstRequest("refs", 0, RefsUrl(parts[1], parts[2], parts[3]),
                                    "GET", None)
                    /\ pc' = "refs"
                    /\ UNCHANGED provider

\* `for branch_data in data`: the loop has no i-th element to take.
LoopExhausted_Early(data, i) == i >= Len(data)

LoopExhausted(data, i) == i > Len(data)

\* The loop `for branch_data in branches_data` at its i-th element, or past it.
BranchesLoop(l, i) ==
    IF LoopExhausted(l.branches_data, i)
    THEN /\ Return(l.all_branches)
         /\ locals' = l
    ELSE /\ locals' = [l EXCEPT !.i = i]
         /\ NextRequest("commit", l.branches_data[i].objectId,
                        CommitUrl(l, l.branches_data[i].objectId), "GET", None)
         /\ pc' = "commit"

BranchesRefsReturned ==
    /\ At({"get_branches"}, "refs")
    /\ \E n \in RefCounts(args.repository) : \E policies \in PolicyChoices(n) :
        /\ Recv({"get_branches"}, "refs", RefsBody(n))
        /\ provider' = [policies |-> policies]
        /\ BranchesLoop([org           |-> locals.org,
                         project       |-> locals.project,
                         repo_name     |-> locals.repo_name,
                         branches_data |-> Json(RefsBody(n)).value,
                         all_branches  |-> << >>,
                         i             |-> 0,
                         commit_data   |-> None], 1)

BranchesCommitReturned ==
    /\ At({"get_branches"}, "commit")
    /\ LET branch_data == locals.branches_data[locals.i]
           name        == StripHeads(branch_data.name)
           body        == CommitBody(branch_data.objectId)
       IN  /\ Recv({"get_branches"}, "commit", body)
           /\ locals' = [locals EXCEPT !.commit_data = Json(body)]
           /\ NextRequest("policy", name, PolicyUrl(locals, locals.repo_name, name),
                          "GET", None)
           /\ pc' = "policy"
           /\ UNCHANGED provider

BranchesPolicyReturned ==
    /\ At({"get_branches"}, "policy")
    /\ LET branch_data  == locals.branches_data[locals.i]
           name         == StripHeads(branch_data.name)
           body         == PolicyBody(name)
           is_protected == Len(Json(body).value) > 0
           branch       == Branch(name, branch_data.objectId, is_protected,
                                  locals.commit_data)
           l            == [locals EXCEPT !.all_branches = Append(@, branch)]
       IN  /\ Recv({"get_branches"}, "policy", body)
           /\ IF BranchCapReached(l.all_branches)
              THEN /\ Return(l.all_branches)
                   /\ locals' = l
              ELSE BranchesLoop(l, locals.i + 1)
           /\ UNCHANGED provider

-----------------------------------------------------------------------------
(* get_paginated_branches                                                  *)

Pages == (0 - MaxPage) .. MaxPage
PerPages == 0 .. MaxPerPage

\* `paginated_data = branches_data[start_idx:end_idx]`
PageSlice_All(data, start_idx, end_idx) == data

PageSlice(data, start_idx, end_idx) == PySlice(data, start_idx, end_idx)

get_paginated_branches ==
    \E repository \in Identifiers : \E page \in Pages : \E per_page \in PerPages :
        /\ Begin("get_paginated_branches",
                 [repository |-> repository, page |-> page, per_page |-> per_page])
        /\ LET parts == Split(repository)
           IN  IF TooFewSegments(parts)
               THEN RaiseNow("ValueError")
               ELSE /\ locals' = [org |-> parts[1], project |-> parts[2],
                                  repo_name |-> parts[3]]
                    /\ FirstRequest("repository", 0,
                                    Url(RepositoryPath(parts[1], parts[2], parts[3], << >>),
                                        NoQuery),
                                    "GET", None)
                    /\ pc' = "repository"
                    /\ UNCHANGED provider

PagedRepositoryReturned ==
    /\ At({"get_paginated_branches"}, "repository")
    /\ \E body \in RepositoryBodies(locals.repo_name) :
          /\ Recv({"get_paginated_branches"}, "repository", body)
          /\ locals' = [org       |-> locals.org,
                        project   |-> locals.project,
                        repo_name |-> locals.repo_name,
                        repo_id   |-> DictGet(Json(body).id, locals.repo_name)]
          /\ NextRequest("refs", 0,
                         RefsUrl(locals.org, locals.project, locals.repo_name),
                         "GET", None)
          /\ pc' = "refs"
          /\ UNCHANGED provider

PagedResponse(l) ==
    [branches      |-> l.branches,
     has_next_page |-> l.end_idx < Len(l.branches_data),
     current_page  |-> args.page,
     per_page      |-> args.per_page]

\* The loop `for branch_data in paginated_data` at its i-th element, or past it.
PagedLoop(l, i) ==
    IF LoopExhausted(l.paginated_data, i)
    THEN /\ Return(PagedResponse(l))
         /\ locals' = l
    ELSE /\ locals' = [l EXCEPT !.i = i]
         /\ NextRequest("commit", l.paginated_data[i].objectId,
                        CommitUrl(l, l.paginated_data[i].objectId), "GET", None)
         /\ pc' = "commit"

PagedRefsReturned ==
    /\ At({"get_paginated_branches"}, "refs")
    /\ \E n \in RefCounts(args.repository) : \E policies \in PolicyChoices(n) :
          /\ Recv({"get_paginated_branches"}, "refs", RefsBody(n))
          /\ provider' = [policies |-> policies]
          /\ LET branches_data == Json(RefsBody(n)).value
                 start_idx     == (args.page - 1) * args.per_page
                 end_idx       == start_idx + args.per_page
             IN  PagedLoop([org            |-> locals.org,
                            project        |-> locals.project,
                            repo_name      |-> locals.repo_name,
                            repo_id        |-> locals.repo_id,
                            branches_data  |-> branches_data,
                            end_idx        |-> end_idx,
                            paginated_data |-> PageSlice(branches_data, start_idx, end_idx),
                            branches       |-> << >>,
                            i              |-> 0,
                            commit_data    |-> None], 1)

PagedCommitReturned ==
    /\ At({"get_paginated_branches"}, "commit")
    /\ LET branch_data == locals.paginated_data[locals.i]
           name        == StripHeads(branch_data.name)
           body        == CommitBody(branch_data.objectId)
       IN  /\ Recv({"get_paginated_branches"}, "commit", body)
           /\ locals' = [locals EXCEPT !.commit_data = Json(body)]
           /\ NextRequest("policy", name, PolicyUrl(locals, locals.repo_id, name),
                          "GET", None)
           /\ pc' = "policy"
           /\ UNCHANGED provider

PagedPolicyReturned ==
    /\ At({"get_paginated_branches"}, "policy")
    /\ LET branch_data  == locals.paginated_data[locals.i]
           name         == StripHeads(branch_data.name)
           body         == PolicyBody(name)
           is_protected == Len(Json(body).value) > 0
           branch       == Branch(name, branch_data.objectId, is_protected,
                                  locals.commit_data)
       IN  /\ Recv({"get_paginated_branches"}, "policy", body)
           /\ PagedLoop([locals EXCEPT !.branches = Append(@, branch)], locals.i + 1)
           /\ UNCHANGED provider

-----------------------------------------------------------------------------
(* create_pr                                                               *)

SourceBranch == << "f" >>
TargetBranch == << "m" >>
PrBodies == { None, << >>, << "d" >> }

\* `if not body: body = f'Merging changes from {source_branch} into {target_branch}'`
Description(body, source_branch, target_branch) ==
    IF body = None \/ body = << >>
    THEN << "Merging changes from " >> \o source_branch \o << " into " >> \o target_branch
    ELSE body

RefsHeads(branch) == [heads |-> TRUE, short |-> branch]

create_pr ==
    \E repo_name \in Identifiers : \E body \in PrBodies : \E draft \in BOOLEAN :
        /\ Begin("create_pr",
                 [repo_name |-> repo_name, source_branch |-> SourceBranch,
                  target_branch |-> TargetBranch, title |-> << "t" >>,
                  body |-> body, draft |-> draft])
        /\ LET parts == Split(repo_name)
           IN  IF TooFewSegments(parts)
               THEN RaiseNow("ValueError")
               ELSE /\ locals' = [org |-> parts[1], project |-> parts[2],
                                  repo |-> parts[3]]
                    /\ FirstRequest("pullrequests", 0,
                           Url(RepositoryPath(parts[1], parts[2], parts[3],
                                              << Lit("pullrequests") >>), NoQuery),
                           "POST",
                           [sourceRefName |-> RefsHeads(SourceBranch),
                            targetRefName |-> RefsHeads(TargetBranch),
                            title         |-> << "t" >>,
                            description   |-> Description(body, SourceBranch, TargetBranch),
                            isDraft       |-> draft])
                    /\ pc' = "pullrequests"
                    /\ UNCHANGED provider

CreatePrReturned ==
    /\ At({"create_pr"}, "pullrequests")
    /\ LET body   == [pullRequestId |-> << "7" >>]
           pr_id  == Json(body).pullRequestId
       IN  /\ Recv({"create_pr"}, "pullrequests", body)
           /\ Return([host |-> "dev.azure.com",
                      path |-> << locals.org, locals.project, Lit("_git"), locals.repo,
                                  Lit("pullrequest"), pr_id >>])
           /\ UNCHANGED <<locals, provider>>

-----------------------------------------------------------------------------
(* Agent-config URLs                                                       *)

\* _parse_repository: `return parts[0], parts[1], parts[2]`.
ParseRepository(parts) == [org |-> parts[1], project |-> parts[2], repo |-> parts[3]]

MicroagentsPaths == { << ".openhands/microagents" >> }

get_cursorrules_url ==
    \E repository \in Identifiers :
        /\ Begin("_get_cursorrules_url", [repository |-> repository])
        /\ LET parts == Split(repository)
           IN  IF TooFewSegments(parts)
               THEN RaiseNow("ValueError")
               ELSE LET r == ParseRepository(parts)
                    IN  ReturnNow(Url(BaseUrl \o RepositoryPath(r.org, r.project, r.repo,
                                                               << Lit("items") >>),
                                      [path |-> << "/", ".cursorrules" >>]))

get_microagents_directory_url ==
    \E repository \in Identifiers : \E microagents_path \in MicroagentsPaths :
        /\ Begin("_get_microagents_directory_url",
                 [repository |-> repository, microagents_path |-> microagents_path])
        /\ LET parts == Split(repository)
           IN  IF TooFewSegments(parts)
               THEN RaiseNow("ValueError")
               ELSE LET r == ParseRepository(parts)
                    IN  ReturnNow(Url(BaseUrl \o RepositoryPath(r.org, r.project, r.repo,
                                                               << Lit("items") >>),
                                      [path           |-> << "/" >> \o microagents_path,
                                       recursionLevel |-> "OneLevel"]))

-----------------------------------------------------------------------------
(* Provider data for the repository operations.                            *)

\* A repository resource of the provider; lastUpdateTime may be absent.
Repo(id, name, last_update_time) ==
    [id |-> id, name |-> name, project |-> [name |-> << "p" >>],
     lastUpdateTime |-> last_update_time]

R1 == Repo(<< "1" >>, << "a" >>, << "1" >>)
R2 == Repo(<< "2" >>, << "B" >>, << "2" >>)
R3 == Repo(<< "3" >>, << "A", "b" >>, None)
R4 == Repo(<< "4" >>, << "b" >>, << "2" >>)

\* The repository lists of the ordinary projects.
RepoLists ==
    { << >>, << R1 >>, << R3 >>, << R1, R2 >>, << R1, R3 >>, << R4, R2, R1 >> }

\* The project that holds many repositories, all alike.
BigProject == << "x" >>

BigRepoList(n) == [i \in 1 .. n |-> R1]

P == [name |-> << "p" >>]
Q == [name |-> << "q" >>]
X == [name |-> BigProject]

\* The project lists of the organization.  get_paginated_repos runs the
\* enumeration of get_repositories; the long lists are enumerated for
\* get_repositories itself.
ProjectLists(name) ==
    { << >>, << P >>, << P, Q >> } \cup
    (IF name = "get_repositories"
     THEN { << X, Q >>, << P, X >> }
     ELSE { })

-----------------------------------------------------------------------------
(* get_repositories and get_paginated_repos                                *)

MAX_REPOS == 1000

Sorts == { "updated", "name", "pushed" }

RepoListsOf(project_name) ==
    IF project_name = BigProject
    THEN { BigRepoList(n) : n \in { MAX_REPOS - 1, MAX_REPOS, MAX_REPOS + 1 } }
    ELSE RepoLists

\* `if len(all_repos) >= MAX_REPOS: break`
RepoCapReached_Off(length) == length > MAX_REPOS

RepoCapReached(length) == length >= MAX_REPOS

\* The inner loop `for repo in repos` appends one entry per iteration and
\* breaks after the first iteration at which the cap check holds: the number
\* of iterations it makes over n repositories.
Iterations(length_before, n) ==
    LET breaks == { k \in 1 .. n : RepoCapReached(length_before + k) }
    IN  IF breaks = { } THEN n
        ELSE CHOOSE k \in breaks : \A j \in breaks : k <= j

\* The entry appended for a repository of a project.
RepoEntry(repo, project_name) ==
    [id           |-> repo.id,
     name         |-> repo.name,
     project_name |-> project_name,
     updated_date |-> repo.lastUpdateTime]

\* key=lambda r: r.get('updated_date', ''): the entry has the key, so the
\* default is never used and an absent lastUpdateTime gives None.
UpdatedKey(r) == r.updated_date

\* key=lambda r: r.get('name', '').lower()
NameKey(r) == Lower(r.name)

\* Sorting compares every element with another one when there are two or
\* more; `<` between None and a str, or None and None, raises TypeError.
SortRaises(all_repos, key(_)) ==
    /\ Len(all_repos) >= 2
    /\ \E i \in 1 .. Len(all_repos) : key(all_repos[i]) = None

\* Repository(id=str(repo.get('id')), full_name=f'{org}/{project_name}/{name}')
RepositoryOf(r) ==
    [id        |-> PyStr(r.id),
     full_name |-> Slashed(organization, r.project_name, r.name)]

\* all_repos after the sort statement, when it does not raise.
SortRepos(all_repos, sort) ==
    IF sort = "updated" THEN SortedBy(all_repos, UpdatedKey, TRUE)
    ELSE IF sort = "name" THEN SortedBy(all_repos, NameKey, FALSE)
    ELSE all_repos

\* `if query: all_repos = [repo for repo in all_repos if query_lower in
\* repo.full_name.lower()]`
FilterByQuery(all_repos, query) ==
    IF query = None \/ query = << >> THEN all_repos
    ELSE SelectSeq(all_repos, LAMBDA repo : TextIn(Lower(query), Lower(repo.full_name)))

\* get_paginated_repos after get_repositories returned.
PageOfRepos(all_repos, page, per_page, query) ==
    LET start_idx == (page - 1) * per_page
        end_idx   == start_idx + per_page
    IN  PySlice(FilterByQuery(all_repos, query), start_idx, end_idx)

RepoQueries == { None, << "a" >> }

RepositoryOps == { "get_repositories", "get_paginated_repos" }

ProjectsUrl == Url(BaseUrl \o << Lit("_apis"), Lit("projects") >>, NoQuery)

ProjectReposUrl(project_name) ==
    Url(BaseUrl \o << project_name, Lit("_apis"), Lit("git"), Lit("repositories") >>,
        NoQuery)

get_repositories ==
    \E sort \in Sorts :
        /\ Begin("get_repositories", [sort |-> sort, app_mode |-> "SAAS"])
        /\ FirstRequest("projects", 0, ProjectsUrl, "GET", None)
        /\ locals' = << >>
        /\ pc' = "projects"
        /\ UNCHANGED provider

get_paginated_repos ==
    \E page \in Pages : \E per_page \in PerPages : \E sort \in Sorts :
    \E query \in RepoQueries :
        /\ Begin("get_paginated_repos",
                 [page |-> page, per_page |-> per_page, sort |-> sort,
                  installation_id |-> None, query |-> query])
        /\ FirstRequest("projects", 0, ProjectsUrl, "GET", None)
        /\ locals' = << >>
        /\ pc' = "projects"
        /\ UNCHANGED provider

\* get_repositories after its loops: the sort, the conversion, and for
\* get_paginated_repos the filter and the slice.
FinishRepositories(l) ==
    IF args.sort = "updated" /\ SortRaises(l.all_repos, UpdatedKey)
    THEN /\ Raise("TypeError")
         /\ locals' = l
    ELSE LET sorted       == SortRepos(l.all_repos, args.sort)
             repositories == MapSeq(RepositoryOf, PySlice(sorted, 0, MAX_REPOS))
         IN  /\ locals' = [l EXCEPT !.all_repos = sorted]
             /\ IF op = "get_repositories"
                THEN Return(repositories)
                ELSE Return(PageOfRepos(repositories, args.page, args.per_page,
                                        args.query))

\* The loop `for project in projects` at its i-th element, or past it.
ProjectsLoop(l, i) ==
    IF LoopExhausted(l.projects, i)
    THEN FinishRepositories(l)
    ELSE /\ locals' = [l EXCEPT !.i = i]
         /\ NextRequest("repos", l.projects[i].name,
                        ProjectReposUrl(l.projects[i].name), "GET", None)
         /\ pc' = "repos"

ProjectsReturned ==
    /\ At(RepositoryOps, "projects")
    /\ \E projects \in ProjectLists(op) :
          /\ Recv(RepositoryOps, "projects", [value |-> projects])
          /\ ProjectsLoop([projects   |-> Json([value |-> projects]).value,
                           all_repos  |-> << >>,
                           enumerated |-> << >>,
                           i          |-> 0], 1)
          /\ UNCHANGED provider

ProjectReposReturned ==
    /\ At(RepositoryOps, "repos")
    /\ LET project_name == locals.projects[locals.i].name
       IN  \E body \in RepoListsOf(project_name) :
              /\ Recv(RepositoryOps, "repos", [value |-> body])
              /\ LET repos     == Json([value |-> body]).value
                     taken     == Iterations(Len(locals.all_repos), Len(repos))
                     entries   == [k \in 1 .. taken |-> RepoEntry(repos[k], project_name)]
                     all_repos == locals.all_repos \o entries
                     l         == [locals EXCEPT !.all_repos = all_repos,
                                                 !.enumerated = all_repos]
                 IN  IF RepoCapReached(Len(all_repos))
                     THEN FinishRepositories(l)
                     ELSE ProjectsLoop(l, locals.i + 1)
              /\ UNCHANGED provider

-----------------------------------------------------------------------------
(* search_repositories                                                     *)

SearchQueries == { << >>, << "a" >>, << "A", "B" >> }
Orders == { "desc", "asc" }

\* `query.lower() in repo.get('name', '').lower()`
NameMatches_CaseSensitive(query, repo) == TextIn(query, repo.name)

NameMatches(query, repo) == TextIn(Lower(query), Lower(repo.name))

\* Repository(id=str(repo.get('id')),
\*            full_name=f'{organization}/{repo project name}/{repo name}')
SearchResultOf(repo) ==
    [id        |-> PyStr(repo.id),
     full_name |-> Slashed(organization, repo.project.name, repo.name)]

SearchUrl ==
    IF project = << >>
    THEN Url(BaseUrl \o << Lit("_apis"), Lit("git"), Lit("repositories") >>, NoQuery)
    ELSE Url(BaseUrl \o << project, Lit("_apis"), Lit("git"), Lit("repositories") >>,
             NoQuery)

search_repositories ==
    \E query \in SearchQueries : \E per_page \in PerPages : \E sort \in Sorts :
    \E order \in Orders :
        /\ Begin("search_repositories",
                 [query |-> query, per_page |-> per_page, sort |-> sort,
                  order |-> order])
        /\ FirstRequest("repositories", 0, SearchUrl, "GET", None)
        /\ locals' = << >>
        /\ pc' = "repositories"
        /\ UNCHANGED provider

SearchReturned ==
    /\ At({"search_repositories"}, "repositories")
    /\ \E body \in RepoLists :
          /\ Recv({"search_repositories"}, "repositories", [value |-> body])
          /\ LET response == Json([value |-> body])
                 filtered == IF args.query # << >>
                             THEN SelectSeq(response.value,
                                            LAMBDA repo : NameMatches(args.query, repo))
                             ELSE response.value
                 repos    == PySlice(filtered, 0, args.per_page)
             IN  /\ locals' = [repos |-> repos]
                 /\ Return(MapSeq(SearchResultOf, repos))
          /\ UNCHANGED provider

-----------------------------------------------------------------------------
(* get_user and get_suggested_tasks                                        *)

ProfileBody == [id |-> << "u" >>, displayName |-> << "n" >>, imageUrl |-> << "i" >>]
GraphUserBody == [mailAddress |-> << "m" >>]

UserOps == { "get_user", "get_suggested_tasks" }

ProfileUrl ==
    Url(BaseUrl \o << Lit("_apis"), Lit("profile"), Lit("profiles"), Lit("me") >>, NoQuery)

GraphUserUrl(user_id) ==
    Url(BaseUrl \o << Lit("_apis"), Lit("graph"), Lit("users"), user_id >>, NoQuery)

PullRequestsUrl(user_id) ==
    Url(BaseUrl \o << project, Lit("_apis"), Lit("git"), Lit("pullrequests") >>,
        [creatorId |-> user_id, status |-> "active"])

WiqlUrl == Url(BaseUrl \o << project, Lit("_apis"), Lit("wit"), Lit("wiql") >>, NoQuery)

WorkItemUrl(work_item_id) ==
    Url(BaseUrl \o << project, Lit("_apis"), Lit("wit"), Lit("workitems"), work_item_id >>,
        NoQuery)

get_user ==
    /\ Begin("get_user", << >>)
    /\ FirstRequest("profile", 0, ProfileUrl, "GET", None)
    /\ locals' = << >>
    /\ pc' = "profile"
    /\ UNCHANGED provider

\* `if not self.project`: no project is bound (the class default '' is left).
NoProject_Never(bound) == FALSE

NoProject(bound) == bound = << >>

get_suggested_tasks ==
    /\ Begin("get_suggested_tasks", << >>)
    /\ IF NoProject(project)
       THEN ReturnNow(<< >>)
       ELSE /\ FirstRequest("profile", 0, ProfileUrl, "GET", None)
            /\ locals' = << >>
            /\ pc' = "profile"
            /\ UNCHANGED provider

ProfileReturned ==
    /\ At(UserOps, "profile")
    /\ Recv(UserOps, "profile", ProfileBody)
    /\ LET response == Json(ProfileBody)
       IN  /\ locals' = [response |-> response, user_id |-> response.id]
           /\ NextRequest("graph_user", 0, GraphUserUrl(response.id), "GET", None)
    /\ pc' = "graph_user"
    /\ UNCHANGED provider

User(response, user_details) ==
    [id         |-> PyStr(response.id),
     login      |-> response.displayName,
     avatar_url |-> response.imageUrl,
     name       |-> response.displayName,
     email      |-> user_details.mailAddress,
     company    |-> None]

GraphUserReturned ==
    /\ At(UserOps, "graph_user")
    /\ Recv(UserOps, "graph_user", GraphUserBody)
    /\ LET user == User(locals.response, Json(GraphUserBody))
       IN  IF op = "get_user"
           THEN /\ Return(user)
                /\ UNCHANGED locals
           ELSE /\ locals' = [user |-> user]
                /\ NextRequest("pullrequests", 0, PullRequestsUrl(user.id), "GET", None)
                /\ pc' = "pullrequests"
    /\ UNCHANGED provider

\* A pull request of the provider.
PullRequest(id, merge_status, status, unresolved) ==
    [pullRequestId         |-> id,
     title                 |-> << "t" >>,
     repository            |-> [name |-> << "r" >>],
     mergeStatus           |-> merge_status,
     status                |-> status,
     hasUnresolvedComments |-> unresolved]

PullRequestsAt(id) ==
    { PullRequest(id, m, st, u) :
        m \in { "conflicts", "succeeded" }, st \in { "failed", "active" }, u \in BOOLEAN }

\* The pull-request lists: the i-th pull request has id i.
RECURSIVE PullRequestLists(_)
PullRequestLists(n) ==
    IF n = 0 THEN { << >> }
    ELSE LET shorter == PullRequestLists(n - 1)
         IN  shorter \cup
             { Append(l, pr) : l \in { x \in shorter : Len(x) = n - 1 },
                               pr \in PullRequestsAt(n) }

SuggestedTask(task_type, repo, issue_number, title) ==
    [git_provider |-> "azure_devops", task_type |-> task_type, repo |-> repo,
     issue_number |-> issue_number, title |-> title]

\* The body of the loop `for pr in pull_requests`: the tasks it appends.
TasksOfPullRequest_All(pr) ==
    LET repo == Slashed(organization, project, pr.repository.name)
    IN  (IF pr.mergeStatus = "conflicts"
         THEN << SuggestedTask("MERGE_CONFLICTS", repo, pr.pullRequestId, pr.title) >>
         ELSE << >>)
        \o (IF pr.status = "failed"
            THEN << SuggestedTask("FAILING_CHECKS", repo, pr.pullRequestId, pr.title) >>
            ELSE << >>)
        \o (IF pr.hasUnresolvedComments
            THEN << SuggestedTask("UNRESOLVED_COMMENTS", repo, pr.pullRequestId,
                                  pr.title) >>
            ELSE << >>)

TasksOfPullRequest(pr) ==
    LET repo == Slashed(organization, project, pr.repository.name)
    IN  IF pr.mergeStatus = "conflicts"
        THEN << SuggestedTask("MERGE_CONFLICTS", repo, pr.pullRequestId, pr.title) >>
        ELSE IF pr.status = "failed"
        THEN << SuggestedTask("FAILING_CHECKS", repo, pr.pullRequestId, pr.title) >>
        ELSE IF pr.hasUnresolvedComments
        THEN << SuggestedTask("UNRESOLVED_COMMENTS", repo, pr.pullRequestId, pr.title) >>
        ELSE << >>

PullRequestsReturned ==
    /\ At({"get_suggested_tasks"}, "pullrequests")
    /\ \E prs \in PullRequestLists(MaxPRs) :
          /\ Recv({"get_suggested_tasks"}, "pullrequests", [value |-> prs])
          /\ LET pull_requests == Json([value |-> prs]).value
             IN  locals' = [user          |-> locals.user,
                            pull_requests |-> pull_requests,
                            tasks         |-> Concat(MapSeq(TasksOfPullRequest,
                                                            pull_requests))]
          /\ NextRequest("wiql", 0, WiqlUrl, "POST",
                         [query |-> "SELECT ... WHERE [System.AssignedTo] = @me"])
          /\ pc' = "wiql"
          /\ UNCHANGED provider

\* The work-item references of a query response: the i-th has id <<i>>.
WorkItemRefs(n) == [i \in 1 .. n |-> [id |-> << i >>]]

WorkItemBody(work_item_id) == [fields |-> [SystemTitle |-> << "w" >>]]

\* The loop `for work_item_ref in work_item_references` at its i-th element, or
\* past it.
WorkItemsLoop(l, i) ==
    IF LoopExhausted(l.work_item_references, i)
    THEN /\ Return(l.tasks)
         /\ locals' = l
    ELSE /\ locals' = [l EXCEPT !.i = i]
         /\ NextRequest("workitem", l.work_item_references[i].id,
                        WorkItemUrl(l.work_item_references[i].id), "GET", None)
         /\ pc' = "workitem"

WiqlReturned ==
    /\ At({"get_suggested_tasks"}, "wiql")
    /\ \E n \in 0 .. MaxWorkItems :
          /\ Recv({"get_suggested_tasks"}, "wiql", [workItems |-> WorkItemRefs(n)])
          /\ WorkItemsLoop([user                 |-> locals.user,
                            pull_requests        |-> locals.pull_requests,
                            tasks                |-> locals.tasks,
                            work_item_references |->
                                Json([workItems |-> WorkItemRefs(n)]).workItems,
                            i                    |-> 0], 1)
          /\ UNCHANGED provider

WorkItemReturned ==
    /\ At({"get_suggested_tasks"}, "workitem")
    /\ LET work_item_id == locals.work_item_references[locals.i].id
           body         == WorkItemBody(work_item_id)
           title        == Json(body).fields.SystemTitle
           task         == SuggestedTask("OPEN_ISSUE", Slashed(organization, project, << >>),
                                         work_item_id, title)
       IN  /\ Recv({"get_suggested_tasks"}, "workitem", body)
           /\ WorkItemsLoop([locals EXCEPT !.tasks = Append(@, task)], locals.i + 1)
           /\ UNCHANGED provider

-----------------------------------------------------------------------------
(* Properties.                                                             *)

Done == pc = "done"
Ok == Done /\ result.kind = "ok"
Failed(error) == Done /\ result.kind = "error" /\ result.error = error

IdentifierOps ==
    { "get_repository_details_from_repo_name", "get_branches", "get_paginated_branches",
      "create_pr", "_get_cursorrules_url", "_get_microagents_directory_url" }

Identifier == IF op = "create_pr" THEN args.repo_name ELSE args.repository

\* The number of '/'-separated segments of a text: one more than its slashes.
Segments(text) == Cardinality({ i \in 1 .. Len(text) : text[i] = "/" }) + 1

\* C1: an identifier-consuming operation given an identifier of fewer than 3
\* segments fails with the invalid-format error, and has executed no HTTP
\* request and made no _make_request call when it fails.
C1_InvalidIdentifierFailsBeforeAnyRequest ==
    (op \in IdentifierOps /\ Segments(Identifier) < 3)
        => /\ Failed("ValueError")
           /\ nhttp = 0
           /\ reqlog = << >>
           /\ call = NoCall

C1_Witness ==
    /\ op = "get_paginated_branches"
    /\ Segments(Identifier) = 2
    /\ Failed("ValueError")

\* The statuses of the responses a _make_request call got, in order.
StatusesOf(c) == [i \in 1 .. Len(c.responses) |-> c.responses[i].status]

\* C2: a _make_request call executes the request at most twice, a second time
\* exactly when the refresh flag is set and the first response is a 401; on 401
\* then 200 it returns the 200 response's payload; without the flag a first 401
\* fails it after one execution; any other first status ends it.
C2_AtMostOneRetryOn401 ==
    /\ call.state = "pending"
         => /\ Len(call.execs) = Len(call.responses) + 1
            /\ Len(call.execs) <= 2
            /\ Len(call.execs) = 2 => (refresh /\ call.responses[1].status = 401)
    /\ last.state \in { "returned", "raised" }
         => LET st == StatusesOf(last)
                n  == Len(last.execs)
            IN  /\ n = Len(st)
                /\ n \in 1 .. 2
                /\ n = 2 <=> (refresh /\ st[1] = 401)
                /\ (refresh /\ st = << 401, 200 >>)
                      => (last.state = "returned" /\ last.json = last.responses[2].body)
                /\ (~refresh /\ st[1] = 401)
                      => (last.state = "raised" /\ n = 1 /\ result.kind = "error")
                /\ last.state = "returned" <=> st[n] \in 200 .. 299

C2_Witness ==
    /\ refresh
    /\ last.state = "returned"
    /\ StatusesOf(last) = << 401, 200 >>
    /\ Len(last.execs) = 2

\* C4: get_branches on a transport where every request succeeds executes
\* 1 + 2*min(n, 1000) requests for n listed head refs: the list request, then
\* for each of the first min(n, 1000) refs its commit request followed by its
\* policy request; no per-branch request follows the 1000th branch.
C4_BranchRequestCount ==
    /\ (op = "get_branches" /\ Ok /\ nretry = 0)
         => LET n == Len(locals.branches_data)
                m == IF n <= 1000 THEN n ELSE 1000
            IN  /\ nhttp = 1 + 2 * m
                /\ Len(reqlog) = 1 + 2 * m
                /\ reqlog[1].kind = "refs"
                /\ \A k \in 1 .. m :
                      /\ reqlog[2 * k] = [kind |-> "commit", key |-> k]
                      /\ reqlog[2 * k + 1] = [kind |-> "policy", key |-> k]
                /\ Len(result.value) = m
    /\ (op = "get_branches" /\ pc \in { "commit", "policy" })
         => Len(locals.all_branches) < 1000

C4_Witness ==
    /\ op = "get_branches"
    /\ Ok
    /\ nretry = 0
    /\ Len(locals.branches_data) = 2
    /\ nhttp = 5

\* The original statement of C5: get_paginated_branches executes at most
\* 2 + 2*per_page HTTP requests.
C5_Original_HttpRequestsWithinPage ==
    op = "get_paginated_branches" => nhttp <= 2 + 2 * args.per_page

\* C5, amended: get_paginated_branches makes at most 2 + 2*per_page
\* _make_request calls (each executes one HTTP request, and one more when it
\* retries a 401), and the commit and policy lookups are made only for the refs
\* of the requested page slice, one of each per ref at most.
C5_RequestsWithinPage ==
    op = "get_paginated_branches"
        => /\ Len(reqlog) <= 2 + 2 * args.per_page
           /\ nhttp = Len(reqlog) + nretry
           /\ \A k \in 1 .. Len(reqlog) :
                 reqlog[k].kind \in { "commit", "policy" }
                    => /\ k >= 3
                       /\ \E j \in 1 .. Len(locals.paginated_data) :
                             /\ locals.paginated_data[j].objectId = reqlog[k].key
                             /\ k \in { 1 + 2 * j, 2 + 2 * j }
                       /\ args.page >= 1
                             => reqlog[k].key \in ((args.page - 1) * args.per_page + 1)
                                                    .. (args.page * args.per_page)

C5_Witness ==
    /\ op = "get_paginated_branches"
    /\ Ok
    /\ args.per_page >= 1
    /\ Len(locals.branches_data) > args.per_page
    /\ Len(result.value.branches) = args.per_page
    /\ Len(reqlog) = 2 + 2 * args.per_page

\* C8: when a request of an operation ends in a status that is not a success
\* (after the 401 retry, if any) or in a transport error, the operation raises
\* a typed failure and returns no value.
C8_ProviderFailureSurfaces ==
    last.state = "raised"
        => /\ Done
           /\ result.kind = "error"
           /\ result.error \in TypedFailures
           /\ LET st == StatusesOf(last)
                  final == st[Len(st)]
              IN  /\ final \notin 200 .. 299
                  /\ result.error = "TransportError" <=> final = 0
                  /\ result.error = "AuthFailure" <=> final \in { 401, 403 }

C8_Witness ==
    /\ op = "get_branches"
    /\ last.state = "raised"
    /\ last.kind = "commit"
    /\ Len(locals.all_branches) >= 1
    /\ result.kind = "error"

\* C3: get_repositories returns at most 1000 entries, and no per-project
\* repository request is in flight once the accumulated list holds 1000.
C3_RepositoryCap ==
    /\ (op = "get_repositories" /\ Ok) => Len(result.value) <= 1000
    /\ (op \in RepositoryOps /\ pc = "repos") => Len(locals.all_repos) < 1000

C3_Witness ==
    /\ op = "get_repositories"
    /\ Ok
    /\ Len(result.value) = 1000
    /\ Len(locals.enumerated) = 1000
    /\ Len(reqlog) - 1 < Len(locals.projects)

\* C6: get_paginated_repos with page < 1 and per_page >= 1 returns an empty
\* page, whatever the repository list.
C6_PageBelowOneIsEmpty ==
    (op = "get_paginated_repos" /\ Ok /\ args.page < 1 /\ args.per_page >= 1)
        => result.value = << >>

\* The tasks get_suggested_tasks has appended for the pull request with this id.
TasksOfId(id) ==
    SelectSeq(locals.tasks,
              LAMBDA t : t.task_type # "OPEN_ISSUE" /\ t.issue_number = id)

\* C7: get_suggested_tasks appends at most one task per pull request:
\* merge_conflicts if mergeStatus is 'conflicts', else failing_checks if status
\* is 'failed', else unresolved_comments if hasUnresolvedComments, else none.
C7_OneTaskPerPullRequest ==
    (op = "get_suggested_tasks" /\ Len(reqlog) >= 4)
        => /\ \A i \in 1 .. Len(locals.pull_requests) :
                 LET pr   == locals.pull_requests[i]
                     mine == TasksOfId(pr.pullRequestId)
                     want == IF pr.mergeStatus = "conflicts" THEN "MERGE_CONFLICTS"
                             ELSE IF pr.status = "failed" THEN "FAILING_CHECKS"
                             ELSE IF pr.hasUnresolvedComments THEN "UNRESOLVED_COMMENTS"
                             ELSE "none"
                 IN  /\ Len(mine) <= 1
                     /\ want = "none" <=> Len(mine) = 0
                     /\ Len(mine) = 1 => mine[1].task_type = want
           /\ Ok => result.value = locals.tasks

C7_Witness ==
    /\ op = "get_suggested_tasks"
    /\ Ok
    /\ Len(reqlog) >= 4
    /\ Len(locals.pull_requests) = 2
    /\ locals.pull_requests[2].mergeStatus = "conflicts"
    /\ locals.pull_requests[2].status = "failed"
    /\ locals.pull_requests[2].hasUnresolvedComments
    /\ Len(TasksOfId(2)) = 1
    /\ TasksOfId(2)[1].task_type = "MERGE_CONFLICTS"

\* The timestamp of an entry, the empty string standing for an absent one.
TimestampOrEmpty(r) == IF r.updated_date = None THEN << >> ELSE r.updated_date

\* The order the claim gives the entries for a sort value; an entry without a
\* timestamp is ordered as if its timestamp were the empty string.
ClaimedOrder(entries, sort) ==
    IF sort = "updated" THEN SortedBy(entries, TimestampOrEmpty, TRUE)
    ELSE IF sort = "name" THEN SortedBy(entries, NameKey, FALSE)
    ELSE entries

\* C9: get_repositories, when its requests succeed, succeeds and returns the
\* enumerated repositories by last-update timestamp descending for 'updated'
\* (no timestamp counting as the empty string), case-insensitively by name
\* ascending for 'name', and in enumeration order otherwise.
C9_SortedBySortParameter ==
    (op = "get_repositories" /\ Done /\ last.state = "returned"
        /\ Len(reqlog) >= 2)
        => /\ Ok
           /\ result.value
                = MapSeq(RepositoryOf, ClaimedOrder(locals.enumerated, args.sort))

\* Two characters are the same letter, whatever their case.
SameLetter(a, b) ==
    \/ a = b
    \/ { a, b } = { "a", "A" }
    \/ { a, b } = { "b", "B" }

\* The name contains the query, case-insensitively.
ContainsIgnoringCase(query, name) ==
    \E offset \in 0 .. (Len(name) - Len(query)) :
        \A k \in 1 .. Len(query) : SameLetter(name[offset + k], query[k])

C11_NoProjectNoRequest ==
    (op = "get_suggested_tasks" /\ project = << >>)
        => /\ Ok
           /\ result.value = << >>
           /\ nhttp = 0
           /\ reqlog = << >>
           /\ call = NoCall

C11_Witness ==
    /\ op = "get_suggested_tasks"
    /\ project = << >>
    /\ organization = << "o" >>
    /\ Ok
    /\ result.value = << >>
    /\ nhttp = 0

\* C12: when the refresh flag is set and the first response is 401, the
\* Authorization header of the retried request is built from the credential
\* that get_latest_token returned for the retry.
C12_RetryUsesRefreshedCredential ==
    (call.state = "pending" /\ Len(call.execs) = 2)
        => /\ refresh
           /\ call.responses[1].status = 401
           /\ Len(call.refreshed) = 1
           /\ call.execs[2].Authorization.b64 = << ":" >> \o call.refreshed[1]

\* The operations that return a provider URL built for a repository identifier.
AgentConfigOps == { "_get_cursorrules_url", "_get_microagents_directory_url" }

\* The path has the form {organization}/{project}/_apis/..., organization and
\* project being the first two segments of the identifier.
ApiPathOf(path, identifier) ==
    LET parts == Split(identifier)
    IN  /\ Len(path) >= 3
        /\ path[1] = parts[1]
        /\ path[2] = parts[2]
        /\ path[3] = Lit("_apis")

\* C13: every provider URL built for a repository identifier
\* organization/project/repo, the agent-config item-listing URLs included,
\* is https://dev.azure.com/{organization}/{project}/_apis/..., the
\* organization coming once, directly after the host, from the identifier.
C13_UrlsFollowIdentifier ==
    (op \in IdentifierOps /\ Segments(Identifier) >= 3)
        => /\ call.state = "pending"
                => /\ call.url.host = "dev.azure.com"
                   /\ ApiPathOf(call.url.path, Identifier)
           /\ (op \in AgentConfigOps /\ Ok)
                => /\ result.value.host = "dev.azure.com"
                   /\ ApiPathOf(result.value.path, Identifier)

Next ==
    \/ RetryAfter401
    \/ RequestFails
    \/ get_repository_details_from_repo_name
    \/ RepositoryDetailsReturned
    \/ get_branches
    \/ BranchesRefsReturned
    \/ BranchesCommitReturned
    \/ BranchesPolicyReturned
    \/ get_paginated_branches
    \/ PagedRepositoryReturned
    \/ PagedRefsReturned
    \/ PagedCommitReturned
    \/ PagedPolicyReturned
    \/ create_pr
    \/ CreatePrReturned
    \/ get_repositories
    \/ get_paginated_repos
    \/ ProjectsReturned
    \/ ProjectReposReturned
    \/ search_repositories
    \/ SearchReturned
    \/ get_user
    \/ get_suggested_tasks
    \/ ProfileReturned
    \/ GraphUserReturned
    \/ PullRequestsReturned
    \/ WiqlReturned
    \/ WorkItemReturned
    \/ get_cursorrules_url
    \/ get_microagents_directory_url

Spec == Init /\ [][Next]_vars

====
